---- MODULE Spec2Model ----
(***************************************************************************)
(* Model of app.py, the Global Economic Monitor dashboard: one Streamlit   *)
(* script run per user interaction (a "request cycle"), the memoized       *)
(* World Bank fetch, the pandas normalization, the per-country linear      *)
(* trend and the plotly figure.                                            *)
(*                                                                         *)
(* Numbers are integers; a fitted value is the exact fraction num/den, so  *)
(* floating-point rounding is outside the model.                           *)
(***************************************************************************)
EXTENDS Integers, Sequences, FiniteSets, TLC

VARIABLES
    cache,               \* st.cache_data store of fetch_wb_data: key -> return value
    netlog,              \* every requests.get issued by the process, in order,
                         \* with how it ended and what the call then returned
    response,            \* the response of the last requests.get that returned
    selected_countries,  \* widget state of the running cycle
    selected_indicator,
    show_trend,
    start_date,
    data,                \* the value fetch_wb_data returned in this cycle
    df,                  \* the DataFrame of this cycle
    warnings,            \* st.warning messages of this cycle
    errors,              \* st.error messages of this cycle
    charts,              \* figures handed to st.plotly_chart in this cycle
    pc,                  \* position of the script run
    cycles               \* number of script runs started

vars == <<cache, netlog, response, selected_countries, selected_indicator,
          show_trend, start_date, data, df, warnings, errors, charts, pc, cycles>>

(***************************************************************************)
(* Bounds of the model.                                                    *)
(***************************************************************************)
MaxCycles == 2      \* script runs of one process
MaxRecords == 2     \* records in one response
MaxEnvelope == 3    \* elements of the JSON array of one response

(***************************************************************************)
(* Program constants.                                                      *)
(***************************************************************************)
max_selections == 5
DefaultSpan == 20
end_date == 2026
StatusOK == 200

wb_indicators == {"NY.GDP.MKTP.CD", "FP.CPI.TOTL.ZG"}
\* Two of the fourteen catalog entries: code -> display name.
countries == ("USA" :> "United States") @@ ("CHN" :> "China")

Range(s) == {s[i] : i \in 1..Len(s)}

(***************************************************************************)
(* JSON scalars of a record: null, a number, or a string (a sequence of    *)
(* one-character strings).                                                 *)
(***************************************************************************)
JNull == [t |-> "null", n |-> 0, s |-> <<>>]
JNum(k) == [t |-> "num", n |-> k, s |-> <<>>]
JStr(cs) == [t |-> "str", n |-> 0, s |-> cs]

\* A float of a DataFrame column: a number or NaN.
NaN == [nan |-> TRUE, v |-> 0]
Float(k) == [nan |-> FALSE, v |-> k]

Digits == {"0", "1", "2", "3", "4", "5", "6", "7", "8", "9"}

DigitVal(c) ==
    CASE c = "0" -> 0 [] c = "1" -> 1 [] c = "2" -> 2 [] c = "3" -> 3
      [] c = "4" -> 4 [] c = "5" -> 5 [] c = "6" -> 6 [] c = "7" -> 7
      [] c = "8" -> 8 [] c = "9" -> 9

RECURSIVE ParseDigits(_)
ParseDigits(cs) ==
    IF cs = <<>> THEN 0
    ELSE 10 * ParseDigits(SubSeq(cs, 1, Len(cs) - 1)) + DigitVal(cs[Len(cs)])

IsNumericStr(cs) == cs # <<>> /\ \A i \in 1..Len(cs) : cs[i] \in Digits

(***************************************************************************)
(* pd.to_numeric on one element.  ok = FALSE is the ValueError raised for  *)
(* an unparsable string when errors='raise' (the default); with            *)
(* errors='coerce' such a string becomes NaN.  null and the empty string   *)
(* become NaN in both modes.                                               *)
(***************************************************************************)
ToNumeric1(x, coerce) ==
    CASE x.t = "num" -> [ok |-> TRUE, f |-> Float(x.n)]
      [] x.t = "null" -> [ok |-> TRUE, f |-> NaN]
      [] x.t = "str" ->
            IF IsNumericStr(x.s) THEN [ok |-> TRUE, f |-> Float(ParseDigits(x.s))]
            ELSE IF x.s = <<>> \/ coerce THEN [ok |-> TRUE, f |-> NaN]
            ELSE [ok |-> FALSE, f |-> NaN]

\* pd.to_numeric on a column: raises if any element raises.
ToNumeric(col, coerce) ==
    LET conv == [i \in 1..Len(col) |-> ToNumeric1(col[i], coerce)]
    IN  [ok |-> \A i \in 1..Len(col) : conv[i].ok,
         col |-> [i \in 1..Len(col) |-> conv[i].f]]

\* Variant of Normalize without errors='coerce' on the value column.
Normalize_ValueRaises(recs) ==
    LET dates == ToNumeric([i \in 1..Len(recs) |-> recs[i].date], FALSE)
        values == ToNumeric([i \in 1..Len(recs) |-> recs[i].value], FALSE)
    IN  IF ~dates.ok \/ ~values.ok THEN [ok |-> FALSE, df |-> <<>>]
        ELSE [ok |-> TRUE,
              df |-> [i \in 1..Len(recs) |->
                        [countryiso3code |-> recs[i].countryiso3code,
                         date |-> dates.col[i],
                         value |-> values.col[i]]]]

\* Variant of Normalize with errors='coerce' on the date column too.
Normalize_DateCoerced(recs) ==
    LET dates == ToNumeric([i \in 1..Len(recs) |-> recs[i].date], TRUE)
        values == ToNumeric([i \in 1..Len(recs) |-> recs[i].value], TRUE)
    IN  [ok |-> TRUE,
         df |-> [i \in 1..Len(recs) |->
                   [countryiso3code |-> recs[i].countryiso3code,
                    date |-> dates.col[i],
                    value |-> values.col[i]]]]

(***************************************************************************)
(* Lines 120-122: the DataFrame of the records, with numeric date and      *)
(* value columns.  ok = FALSE: line 121 raised.                            *)
(***************************************************************************)
Normalize(recs) ==
    LET dates == ToNumeric([i \in 1..Len(recs) |-> recs[i].date], FALSE)
        values == ToNumeric([i \in 1..Len(recs) |-> recs[i].value], TRUE)
    IN  IF ~dates.ok THEN [ok |-> FALSE, df |-> <<>>]
        ELSE [ok |-> TRUE,
              df |-> [i \in 1..Len(recs) |->
                        [countryiso3code |-> recs[i].countryiso3code,
                         date |-> dates.col[i],
                         value |-> values.col[i]]]]

(***************************************************************************)
(* Sums used by the least-squares fit.                                     *)
(***************************************************************************)
RECURSIVE Sum(_)
Sum(s) == IF s = <<>> THEN 0 ELSE s[1] + Sum(Tail(s))

Times(xs, ys) == [i \in 1..Len(xs) |-> xs[i] * ys[i]]

\* Series.fillna(0) on a value column, as plain numbers.
FillNa0(col) == [i \in 1..Len(col) |-> IF col[i].nan THEN 0 ELSE col[i].v]

(***************************************************************************)
(* np.polyfit(x, y, 1) for non-empty x: the line a/d * x + b/d that        *)
(* minimises the squared error.  When every x is the same (a single row    *)
(* included) the system is rank deficient and lstsq returns the            *)
(* minimum-norm solution of the column-scaled system, which predicts the   *)
(* mean of y at that x.                                                    *)
(***************************************************************************)
Polyfit(xs, ys) ==
    LET n == Len(xs)
        Sx == Sum(xs)
        Sy == Sum(ys)
        Sxx == Sum(Times(xs, xs))
        Sxy == Sum(Times(xs, ys))
        D == n * Sxx - Sx * Sx
    IN  IF D = 0
        THEN [a |-> Sy, b |-> Sy * xs[1], d |-> 2 * n * xs[1]]
        ELSE [a |-> n * Sxy - Sx * Sy, b |-> Sy * Sxx - Sx * Sxy, d |-> D]

\* np.poly1d(z) evaluated on a column: one fraction per x.
Poly1d(z, xs) == [i \in 1..Len(xs) |-> [num |-> z.a * xs[i] + z.b, den |-> z.d]]

(***************************************************************************)
(* The figure.                                                             *)
(***************************************************************************)
\* df[df['countryiso3code'] == country]
CountryData(frame, country) ==
    LET Match(r) == r.countryiso3code = country
    IN  SelectSeq(frame, Match)

\* The distinct values of a sequence in order of first appearance.
RECURSIVE Unique(_)
Unique(s) ==
    IF s = <<>> THEN <<>>
    ELSE LET front == Unique(SubSeq(s, 1, Len(s) - 1))
             last == s[Len(s)]
         IN  IF last \in Range(front) THEN front ELSE Append(front, last)

\* The columns of a frame, the dates as plain numbers.
Dates(frame) == [i \in 1..Len(frame) |-> frame[i].date.v]
Values(frame) == [i \in 1..Len(frame) |-> frame[i].value]
Codes(frame) == [i \in 1..Len(frame) |-> frame[i].countryiso3code]

\* px.line(df, x='date', y='value', color='countryiso3code'): one trace per
\* distinct code, holding that code's rows in table order.
PxLine(frame) ==
    LET codes == Unique(Codes(frame))
    IN  [k \in 1..Len(codes) |->
            [kind |-> "raw",
             name |-> codes[k],
             x |-> Dates(CountryData(frame, codes[k])),
             y |-> Values(CountryData(frame, codes[k]))]]

\* Variant of TrendTrace that drops the rows with a missing value instead
\* of filling them with 0.
TrendTrace_DropNa(frame, country) ==
    LET HasValue(r) == ~r.value.nan
        country_data == SelectSeq(CountryData(frame, country), HasValue)
        xs == Dates(country_data)
        z == Polyfit(xs, FillNa0(Values(country_data)))
    IN  IF country_data = <<>> THEN <<>>
        ELSE <<[kind |-> "trend",
                name |-> <<countries[country], "trend">>,
                x |-> xs,
                y |-> Poly1d(z, xs)]>>

\* Lines 136-148 for one country: the dashed trace, or nothing.
TrendTrace(frame, country) ==
    LET country_data == CountryData(frame, country)
        xs == Dates(country_data)
        z == Polyfit(xs, FillNa0(Values(country_data)))
    IN  IF country_data = <<>> THEN <<>>
        ELSE <<[kind |-> "trend",
                name |-> <<countries[country], "trend">>,
                x |-> xs,
                y |-> Poly1d(z, xs)]>>

\* Lines 134-148: the traces added by the loop over the selection.
RECURSIVE TrendTraces(_, _)
TrendTraces(frame, sel) ==
    IF sel = <<>> THEN <<>>
    ELSE TrendTrace(frame, Head(sel)) \o TrendTraces(frame, Tail(sel))

\* Variant of Figure that ignores the "Show Trend Line" checkbox.
Figure_AlwaysTrend(frame, sel, trend) ==
    PxLine(frame) \o TrendTraces(frame, sel)

\* Lines 125-155: the figure handed to st.plotly_chart.
Figure(frame, sel, trend) ==
    PxLine(frame) \o (IF trend THEN TrendTraces(frame, sel) ELSE <<>>)

(***************************************************************************)
(* fetch_wb_data.                                                          *)
(***************************************************************************)
\* None, or the list a call returned.
None == [none |-> TRUE, recs |-> <<>>]
List(recs) == [none |-> FALSE, recs |-> recs]

\* Variant of Truthy that tests "is not None" only.
Truthy_NotNone(d) == ~d.none

\* Python truthiness of a fetch result: None and [] are falsy.
Truthy(d) == ~d.none /\ d.recs # <<>>

\* sep.join(list), as the sequence of the pieces of the resulting string.
RECURSIVE Join(_, _)
Join(sep, list) ==
    IF list = <<>> THEN <<>>
    ELSE IF Len(list) = 1 THEN <<list[1]>>
    ELSE <<list[1], sep>> \o Join(sep, Tail(list))

\* Lines 22-31: the request of one call.
Request(indicator, country, start, end) ==
    [country |-> Join(";", country),
     indicator |-> indicator,
     date |-> <<start, end>>]

\* Variant of FetchResult without the status check of line 34.
FetchResult_AnyStatus(resp) ==
    IF Len(resp.json) > 1 THEN resp.json[2] ELSE None

\* Lines 34-38: the return value for a response.
FetchResult(resp) ==
    IF resp.status = StatusOK
    THEN IF Len(resp.json) > 1 THEN resp.json[2] ELSE None
    ELSE None

\* Variant of CacheKey that leaves the country list out of the key.
CacheKey_NoCountry(indicator, country, start, end) == <<indicator, start, end>>

\* st.cache_data keys an entry by the call's arguments.
CacheKey(indicator, country, start, end) == <<indicator, country, start, end>>

Key == CacheKey(selected_indicator, selected_countries, start_date, end_date)

NoResponse == [status |-> 0, json |-> <<>>]

(***************************************************************************)
(* Inputs.                                                                 *)
(***************************************************************************)
\* st.multiselect: distinct options in the order chosen, at most max_selections.
Selections ==
    {s \in UNION {[1..n -> DOMAIN countries] : n \in 0..max_selections} :
        \A i, j \in 1..Len(s) : i # j => s[i] # s[j]}

\* st.slider: the model leaves the slider at its default.
StartYears == {end_date - DefaultSpan}

Statuses == {StatusOK, 404}

Y2023 == JStr(<<"2", "0", "2", "3">>)
Y2024 == JStr(<<"2", "0", "2", "4">>)
Y2024Q1 == JStr(<<"2", "0", "2", "4", "Q", "1">>)
Unavailable == JStr(<<"u", "n", "a", "v", "a", "i", "l", "a", "b", "l", "e">>)

\* The records a response may carry.  The source does not check them
\* against the request: any catalog code may come back.
RawRecords ==
    [countryiso3code : DOMAIN countries,
     date : {Y2023, Y2024, Y2024Q1},
     value : {JNum(3), JNull, Unavailable}]

RecordLists == UNION {[1..n -> RawRecords] : n \in 0..MaxRecords}

GoodRecord == [countryiso3code |-> "USA", date |-> Y2024, value |-> JNum(3)]
BadRecord == [countryiso3code |-> "USA", date |-> Y2024Q1, value |-> JNum(3)]

\* The second element of an envelope: null or a list of records.
SmallElems == {None, List(<<>>), List(<<GoodRecord>>), List(<<BadRecord>>)}
AllElems == {None} \cup {List(l) : l \in RecordLists}

Meta == None

\* A JSON array of n elements whose second element, if any, is e.
Envelope(n, e) == [i \in 1..n |-> IF i = 2 THEN e ELSE Meta]

\* Every status with every envelope length, over few record lists.
SmallResponses ==
    [status : Statuses,
     json : {Envelope(n, e) : n \in 0..MaxEnvelope, e \in SmallElems}]

\* The above and every record list in a well-formed success envelope.
AllResponses ==
    SmallResponses \cup
    {[status |-> StatusOK, json |-> Envelope(2, e)] : e \in AllElems}

(***************************************************************************)
(* The script run.                                                         *)
(***************************************************************************)
Init ==
    /\ cache = <<>>
    /\ netlog = <<>>
    /\ response = NoResponse
    /\ selected_countries = <<"USA">>
    /\ selected_indicator = "NY.GDP.MKTP.CD"
    /\ show_trend = TRUE
    /\ start_date = end_date - DefaultSpan
    /\ data = None
    /\ df = <<>>
    /\ warnings = <<>>
    /\ errors = <<>>
    /\ charts = <<>>
    /\ pc = "done"
    /\ cycles = 0

\* A user interaction: Streamlit reruns the script with the widget values.
Rerun(sel, ind, trend, start) ==
    /\ pc = "done"
    /\ cycles' = cycles + 1
    /\ selected_countries' = sel
    /\ selected_indicator' = ind
    /\ show_trend' = trend
    /\ start_date' = start
    /\ response' = NoResponse
    /\ data' = None
    /\ df' = <<>>
    /\ warnings' = <<>>
    /\ errors' = <<>>
    /\ charts' = <<>>
    /\ pc' = "main"
    /\ UNCHANGED <<cache, netlog>>

\* Variant of EmptySelection that reports through st.error.
EmptySelection_AsError ==
    /\ pc = "main"
    /\ selected_countries = <<>>
    /\ errors' = Append(errors, "Please select at least one country.")
    /\ pc' = "done"
    /\ UNCHANGED <<cache, netlog, response, selected_countries, selected_indicator,
                   show_trend, start_date, data, df, warnings, charts, cycles>>

\* Lines 107-108.
EmptySelection ==
    /\ pc = "main"
    /\ selected_countries = <<>>
    /\ warnings' = Append(warnings, "Please select at least one country.")
    /\ pc' = "done"
    /\ UNCHANGED <<cache, netlog, response, selected_countries, selected_indicator,
                   show_trend, start_date, data, df, errors, charts, cycles>>

\* Lines 111-116, the arguments are in the cache: the body does not run.
FetchCached ==
    /\ pc = "main"
    /\ selected_countries # <<>>
    /\ Key \in DOMAIN cache
    /\ data' = cache[Key]
    /\ pc' = "fetched"
    /\ UNCHANGED <<cache, netlog, response, selected_countries, selected_indicator,
                   show_trend, start_date, df, warnings, errors, charts, cycles>>

\* Variant of FetchResponse that issues one request per selected country.
FetchResponse_PerCountry(resp) ==
    /\ pc = "main"
    /\ selected_countries # <<>>
    /\ Key \notin DOMAIN cache
    /\ netlog' = netlog \o
                  [k \in 1..Len(selected_countries) |->
                     [cycle |-> cycles,
                      req |-> Request(selected_indicator, <<selected_countries[k]>>,
                                      start_date, end_date),
                      outcome |-> "returned",
                      result |-> FetchResult(resp)]]
    /\ response' = resp
    /\ cache' = (Key :> FetchResult(resp)) @@ cache
    /\ data' = FetchResult(resp)
    /\ pc' = "fetched"
    /\ UNCHANGED <<selected_countries, selected_indicator, show_trend, start_date,
                   df, warnings, errors, charts, cycles>>

\* Lines 111-116, cache miss, requests.get returns resp: the return value
\* is stored under the arguments.
FetchResponse(resp) ==
    /\ pc = "main"
    /\ selected_countries # <<>>
    /\ Key \notin DOMAIN cache
    /\ netlog' = Append(netlog,
                        [cycle |-> cycles,
                         req |-> Request(selected_indicator, selected_countries,
                                         start_date, end_date),
                         outcome |-> "returned",
                         result |-> FetchResult(resp)])
    /\ response' = resp
    /\ cache' = (Key :> FetchResult(resp)) @@ cache
    /\ data' = FetchResult(resp)
    /\ pc' = "fetched"
    /\ UNCHANGED <<selected_countries, selected_indicator, show_trend, start_date,
                   df, warnings, errors, charts, cycles>>

\* Variant of FetchTransportFailure that swallows the exception inside the
\* call and returns None.
FetchTransportFailure_Swallowed ==
    /\ pc = "main"
    /\ selected_countries # <<>>
    /\ Key \notin DOMAIN cache
    /\ netlog' = Append(netlog,
                        [cycle |-> cycles,
                         req |-> Request(selected_indicator, selected_countries,
                                         start_date, end_date),
                         outcome |-> "raised",
                         result |-> None])
    /\ data' = None
    /\ pc' = "fetched"
    /\ UNCHANGED <<cache, response, selected_countries, selected_indicator,
                   show_trend, start_date, df, warnings, errors, charts, cycles>>

\* Lines 111-116, cache miss, requests.get raises: nothing is stored, the
\* exception reaches line 159.
FetchTransportFailure ==
    /\ pc = "main"
    /\ selected_countries # <<>>
    /\ Key \notin DOMAIN cache
    /\ netlog' = Append(netlog,
                        [cycle |-> cycles,
                         req |-> Request(selected_indicator, selected_countries,
                                         start_date, end_date),
                         outcome |-> "raised",
                         result |-> None])
    /\ errors' = Append(errors, "ConnectionError")
    /\ pc' = "done"
    /\ UNCHANGED <<cache, response, selected_countries, selected_indicator,
                   show_trend, start_date, data, df, warnings, charts, cycles>>

\* Line 118, data is None or empty.
NothingToRender ==
    /\ pc = "fetched"
    /\ ~Truthy(data)
    /\ pc' = "done"
    /\ UNCHANGED <<cache, netlog, response, selected_countries, selected_indicator,
                   show_trend, start_date, data, df, warnings, errors, charts, cycles>>

\* Lines 118-121 and 159-160: pd.to_numeric raises on the date column.
NormalizeRaises ==
    /\ pc = "fetched"
    /\ Truthy(data)
    /\ ~Normalize(data.recs).ok
    /\ errors' = Append(errors, "ValueError")
    /\ pc' = "done"
    /\ UNCHANGED <<cache, netlog, response, selected_countries, selected_indicator,
                   show_trend, start_date, data, df, warnings, charts, cycles>>

\* Lines 118-157.
PlotlyChart ==
    /\ pc = "fetched"
    /\ Truthy(data)
    /\ Normalize(data.recs).ok
    /\ df' = Normalize(data.recs).df
    /\ charts' = Append(charts,
                        Figure(Normalize(data.recs).df, selected_countries, show_trend))
    /\ pc' = "done"
    /\ UNCHANGED <<cache, netlog, response, selected_countries, selected_indicator,
                   show_trend, start_date, data, warnings, errors, cycles>>

\* The process: several script runs over one cache.
Next ==
    \/ \E sel \in Selections, ind \in wb_indicators, trend \in BOOLEAN,
          start \in StartYears :
            cycles < MaxCycles /\ Rerun(sel, ind, trend, start)
    \/ EmptySelection
    \/ FetchCached
    \/ \E resp \in SmallResponses : FetchResponse(resp)
    \/ FetchTransportFailure
    \/ NothingToRender
    \/ NormalizeRaises
    \/ PlotlyChart

Spec == Init /\ [][Next]_vars

\* One script run of a fresh process, over every response.
PipelineNext ==
    \/ \E sel \in Selections, trend \in BOOLEAN :
            cycles = 0 /\ Rerun(sel, selected_indicator, trend, start_date)
    \/ EmptySelection
    \/ \E resp \in AllResponses : FetchResponse(resp)
    \/ FetchTransportFailure
    \/ NothingToRender
    \/ NormalizeRaises
    \/ PlotlyChart

PipelineSpec == Init /\ [][PipelineNext]_vars

(***************************************************************************)
(* Properties.                                                             *)
(***************************************************************************)
\* The fetch result is None or an empty list.
NoRecords == data = None \/ data = List(<<>>)

\* The requests issued by the running cycle.
CycleRequests == {i \in 1..Len(netlog) : netlog[i].cycle = cycles}

\* requests.get raised in the running cycle.
TransportFailed == \E i \in CycleRequests : netlog[i].outcome = "raised"

\* The request the running cycle's arguments stand for.
ThisRequest == Request(selected_indicator, selected_countries, start_date, end_date)

\* C1 as stated: over the whole process no two outbound requests carry the
\* same arguments, whatever the outcome of the first.
C1_OneRequestPerTuple ==
    \A i, j \in 1..Len(netlog) :
        i < j => netlog[i].req # netlog[j].req

\* C1 amended: a request that got a response is never followed by another
\* request with the same arguments (only a request that raised may be
\* repeated), and every call that returns gives the value of the one
\* answered request for its arguments.
C1_MemoizedOnceAnswered ==
    /\ \A i, j \in 1..Len(netlog) :
          (i < j /\ netlog[i].req = netlog[j].req) => netlog[i].outcome = "raised"
    /\ pc = "fetched" =>
          \E i \in 1..Len(netlog) :
              /\ netlog[i].req = ThisRequest
              /\ netlog[i].outcome = "returned"
              /\ data = netlog[i].result

\* A later cycle whose fetch was served from the cache: it issued no request
\* and returned the records of the answered request with its arguments.
C1_Witness ==
    /\ pc = "fetched"
    /\ CycleRequests = {}
    /\ ~NoRecords
    /\ \E i \in 1..Len(netlog) : netlog[i].req = ThisRequest

\* C3: with an empty selection the cycle attempts no fetch (no request, no
\* cached value taken), renders no chart, shows no error, and ends with the
\* one warning.
C3_EmptySelectionWarns ==
    (cycles > 0 /\ selected_countries = <<>>) =>
        /\ pc # "fetched"
        /\ CycleRequests = {}
        /\ data = None
        /\ charts = <<>>
        /\ errors = <<>>
        /\ pc = "done" => warnings = <<"Please select at least one country.">>

C3_Witness ==
    /\ pc = "done"
    /\ selected_countries = <<>>
    /\ warnings # <<>>
    /\ cache # <<>>

\* C4: when the fetch returns None or an empty list, the finished cycle has
\* rendered no chart and shown no error and no warning.
C4_NoDataRendersNothing ==
    (pc = "done" /\ cycles > 0 /\ selected_countries # <<>> /\ ~TransportFailed
        /\ NoRecords) =>
        charts = <<>> /\ errors = <<>> /\ warnings = <<>>

\* A finished cycle whose request was answered 404.
C4_Witness ==
    /\ pc = "done"
    /\ response.status = 404
    /\ data = None
    /\ charts = <<>>

\* C5: a cycle whose request raised has issued exactly that one request, is
\* over, has rendered no chart, and shows exactly one error message.
C5_TransportFailureIsOneError ==
    TransportFailed =>
        /\ Cardinality(CycleRequests) = 1
        /\ pc = "done"
        /\ charts = <<>>
        /\ Len(errors) = 1
        /\ warnings = <<>>

C5_Witness == TransportFailed /\ Len(selected_countries) = 2

\* C10: a cycle issues at most one request; its country part is the
\* selection in order with ";" between the codes; and a cycle whose
\* arguments are in the cache issues none.
C10_OneCombinedRequest ==
    /\ [](/\ Cardinality(CycleRequests) <= 1
          /\ \A i \in CycleRequests :
                LET c == netlog[i].req.country
                IN  /\ Len(c) = 2 * Len(selected_countries) - 1
                    /\ \A k \in 1..Len(c) :
                          c[k] = IF k % 2 = 1 THEN selected_countries[(k + 1) \div 2]
                                 ELSE ";")
    /\ [][(pc = "main" /\ Key \in DOMAIN cache) => netlog' = netlog]_vars

\* A two-country cycle that issued its request.
C10_Witness ==
    /\ Len(selected_countries) = 2
    /\ Cardinality(CycleRequests) = 1
    /\ pc = "fetched"

\* C2 as stated: an answered call returns the second element exactly when
\* the status is 200 and the payload has exactly two elements, and None for
\* every other status or length.
C2_RecordsIffTwoElements ==
    (pc = "fetched" /\ response # NoResponse) =>
        data = IF response.status = StatusOK /\ Len(response.json) = 2
               THEN response.json[2]
               ELSE None

\* C2 amended: an answered call returns the second element exactly when the
\* status is 200 and the payload has two or more elements; for every other
\* status and for every payload of fewer than two elements it returns None;
\* no error is raised.
C2_RecordsIffAtLeastTwoElements ==
    (pc = "fetched" /\ response # NoResponse) =>
        /\ data = IF response.status = StatusOK /\ Len(response.json) >= 2
                  THEN response.json[2]
                  ELSE None
        /\ errors = <<>>

\* A three-element success payload whose records were returned.
C2_Witness ==
    /\ pc = "fetched"
    /\ response.status = StatusOK
    /\ Len(response.json) = 3
    /\ ~NoRecords

\* Every date of the records is a year in digits.
WellFormed(recs) == \A i \in 1..Len(recs) : recs[i].date \in {Y2023, Y2024}

\* C6: for well-formed non-empty records the table has one row per record
\* in source order; every value is a number or NaN; a null or non-numeric
\* value is NaN in its own row and a numeric value is kept; nothing raises.
C6_NormalizeKeepsRows ==
    (pc = "done" /\ ~NoRecords /\ WellFormed(data.recs)) =>
        /\ errors = <<>>
        /\ Len(charts) = 1
        /\ Len(df) = Len(data.recs)
        /\ \A i \in 1..Len(df) :
              LET raw == data.recs[i]
              IN  /\ df[i].countryiso3code = raw.countryiso3code
                  /\ df[i].date = IF raw.date = Y2023 THEN Float(2023) ELSE Float(2024)
                  /\ df[i].value \in {NaN} \cup {Float(k) : k \in 0..9}
                  /\ raw.value \in {JNull, Unavailable} => df[i].value = NaN
                  /\ raw.value.t = "num" => df[i].value = Float(raw.value.n)

\* Two rows, the first "unavailable" and missing, the second numeric.
C6_Witness ==
    /\ pc = "done"
    /\ Len(df) = 2
    /\ data.recs[1].value = Unavailable
    /\ df[1].value = NaN
    /\ df[2].value = Float(3)

TableCodes == {df[i].countryiso3code : i \in 1..Len(df)}

\* The traces of a kind in the rendered figure.
Traces(kind) == {k \in 1..Len(charts[1]) : charts[1][k].kind = kind}

RawFor(c) == {k \in Traces("raw") : charts[1][k].name = c}
TrendFor(c) == {k \in Traces("trend") : charts[1][k].name = <<countries[c], "trend">>}

\* C8 as stated: one raw trace per code of the table; with trends on, one
\* trend trace for each code of the table and no other; with trends off none.
C8_TrendPerTableCountry ==
    Len(charts) = 1 =>
        /\ Cardinality(Traces("raw")) = Cardinality(TableCodes)
        /\ \A c \in TableCodes : Cardinality(RawFor(c)) = 1
        /\ IF show_trend
           THEN /\ Cardinality(Traces("trend")) = Cardinality(TableCodes)
                /\ \A c \in TableCodes : Cardinality(TrendFor(c)) = 1
           ELSE Traces("trend") = {}

\* C8 amended: one raw trace per code of the table; with trends on, one
\* trend trace for each selected country that has a row in the table and no
\* other; with trends off none.
C8_TrendPerSelectedTableCountry ==
    Len(charts) = 1 =>
        LET fitted == TableCodes \cap Range(selected_countries)
        IN  /\ Cardinality(Traces("raw")) = Cardinality(TableCodes)
            /\ \A c \in TableCodes : Cardinality(RawFor(c)) = 1
            /\ IF show_trend
               THEN /\ Cardinality(Traces("trend")) = Cardinality(fitted)
                    /\ \A c \in fitted : Cardinality(TrendFor(c)) = 1
               ELSE Traces("trend") = {}

\* Two countries selected and both in the table: two raw and two trend traces.
C8_Witness ==
    /\ Len(charts) = 1
    /\ show_trend
    /\ Cardinality(Traces("raw")) = 2
    /\ Cardinality(Traces("trend")) = 2

\* The rows of a country in the table.
RowsOf(c) == {i \in 1..Len(df) : df[i].countryiso3code = c}

\* C9: every trend trace is for a country with rows and has one point per
\* row of that country, the years in row order; rows with a missing value
\* are among them and enter the fit as 0 (the fitted values sum to the sum
\* of the values so filled) while the raw trace keeps them missing; a
\* country without rows has no trend trace.
C9_TrendPointPerRow ==
    Len(charts) = 1 =>
        \A c \in DOMAIN countries :
            /\ RowsOf(c) = {} => TrendFor(c) = {}
            /\ \A k \in TrendFor(c) :
                  LET t == charts[1][k]
                      rows == CountryData(df, c)
                  IN  /\ Len(t.x) = Cardinality(RowsOf(c))
                      /\ Len(t.y) = Len(t.x)
                      /\ \A j \in 1..Len(rows) : t.x[j] = rows[j].date.v
                      /\ Sum([j \in 1..Len(t.y) |-> t.y[j].num])
                           = t.y[1].den *
                             Sum([j \in 1..Len(rows) |->
                                    IF rows[j].value = NaN THEN 0 ELSE rows[j].value.v])
                      /\ \A r \in RawFor(c) : \A j \in 1..Len(rows) :
                            charts[1][r].y[j] = rows[j].value

\* A trend trace of two points over a country one of whose two rows is missing.
C9_Witness ==
    /\ Len(charts) = 1
    /\ \E c \in DOMAIN countries :
          /\ TrendFor(c) # {}
          /\ Cardinality(RowsOf(c)) = 2
          /\ \E i, j \in RowsOf(c) : df[i].value = NaN /\ df[j].value = Float(3)

====
